---- MODULE Spec2Model ----
(***************************************************************************)
(* BLS12-381 Miller loop in two mirrored forms (native arithmetic and     *)
(* plonky2 circuit targets) and the sextic tower arithmetic under it.     *)
(*                                                                         *)
(* A circuit target is modelled by the value witness filling assigns to   *)
(* it; the two phases of a circuit (constraint-graph construction and     *)
(* witness filling) are kept apart wherever a failure can occur.          *)
(*                                                                         *)
(* The 381-bit base prime is replaced by P, the smallest prime for which  *)
(* the same tower (u^2 = -1, v^3 = 1 + u, w^2 = v) is a tower of fields.   *)
(***************************************************************************)
EXTENDS Integers, Sequences, FiniteSets, TLC

(***************************************************************************)
(* Base field Fq (ark_bls12_381::Fq), residues 0..P-1.                     *)
(***************************************************************************)
P == 19

Fq == 0 .. (P - 1)

FqInv(a) == CHOOSE b \in Fq : (a * b) % P = 1

\* the value of a computation: an intermediate result bound as v \in {e} is
\* computed once, where it is bound, and then used as a value
Only(S) == CHOOSE v \in S : TRUE

(***************************************************************************)
(* Native quadratic extension Fq2 (ark): <<c0, c1>> = c0 + c1*u, u^2 = -1. *)
(***************************************************************************)
Fq2ZERO == <<0, 0>>
Fq2ONE == <<1, 0>>
NONRESIDUE == <<1, 1>>

Fq2Add(x, y) == <<(x[1] + y[1]) % P, (x[2] + y[2]) % P>>
Fq2Sub(x, y) == <<(x[1] - y[1]) % P, (x[2] - y[2]) % P>>
Fq2Neg(x) == <<(0 - x[1]) % P, (0 - x[2]) % P>>
Fq2Double(x) == Fq2Add(x, x)
Fq2Mul(x, y) == <<(x[1] * y[1] - x[2] * y[2]) % P, (x[1] * y[2] + x[2] * y[1]) % P>>
Fq2Square(x) == Fq2Mul(x, x)
Fq2MulByFp(x, k) == <<(x[1] * k) % P, (x[2] * k) % P>>
Fq2Inverse(x) ==
    LET n == FqInv((x[1] * x[1] + x[2] * x[2]) % P)
    IN  <<(x[1] * n) % P, ((0 - x[2]) * n) % P>>

(***************************************************************************)
(* Native sextic extension Fq6 (ark): <<c0, c1, c2>> over Fq2,            *)
(* c0 + c1*v + c2*v^2 with v^3 = 1 + u.                                    *)
(***************************************************************************)
Fq6ZERO == <<Fq2ZERO, Fq2ZERO, Fq2ZERO>>
Fq6ONE == <<Fq2ONE, Fq2ZERO, Fq2ZERO>>

Fq6Add(x, y) == <<Fq2Add(x[1], y[1]), Fq2Add(x[2], y[2]), Fq2Add(x[3], y[3])>>
Fq6Sub(x, y) == <<Fq2Sub(x[1], y[1]), Fq2Sub(x[2], y[2]), Fq2Sub(x[3], y[3])>>
Fq6Neg(x) == <<Fq2Neg(x[1]), Fq2Neg(x[2]), Fq2Neg(x[3])>>

\* the product in Fq2[v]/(v^3 - (1+u)): polynomial product, then v^3 -> 1+u
\* the coefficients of degree 0..4 of the product of x and y as polynomials in v
PolyProduct(x, y) ==
    <<Fq2Mul(x[1], y[1]),
      Fq2Add(Fq2Mul(x[1], y[2]), Fq2Mul(x[2], y[1])),
      Fq2Add(Fq2Add(Fq2Mul(x[1], y[3]), Fq2Mul(x[2], y[2])), Fq2Mul(x[3], y[1])),
      Fq2Add(Fq2Mul(x[2], y[3]), Fq2Mul(x[3], y[2])),
      Fq2Mul(x[3], y[3])>>
Fq6Mul(x, y) ==
    Only({<<Fq2Add(d[1], Fq2Mul(NONRESIDUE, d[4])), Fq2Add(d[2], Fq2Mul(NONRESIDUE, d[5])), d[3]>> :
            d \in {PolyProduct(x, y)}})

\* the element v
Fq6V == <<Fq2ZERO, Fq2ONE, Fq2ZERO>>
\* Fq12Config::mul_fp6_by_nonresidue_in_place: multiplication by v
Fq6MulByV(x) == <<Fq2Mul(NONRESIDUE, x[3]), x[1], x[2]>>

\* Field::inverse: None (here <<>>) on zero, else the element y with x*y = 1
Fq6Inverse(x) ==
    IF x = Fq6ZERO THEN <<>>
    ELSE Only({
             Only({<<Fq2Mul(t0, ni), Fq2Mul(t1, ni), Fq2Mul(t2, ni)>> :
                     ni \in {Fq2Inverse(
                               Fq2Add(Fq2Mul(x[1], t0),
                                      Fq2Mul(NONRESIDUE,
                                             Fq2Add(Fq2Mul(x[3], t1), Fq2Mul(x[2], t2)))))}}) :
             t0 \in {Fq2Sub(Fq2Square(x[1]), Fq2Mul(NONRESIDUE, Fq2Mul(x[2], x[3])))},
             t1 \in {Fq2Sub(Fq2Mul(NONRESIDUE, Fq2Square(x[3])), Fq2Mul(x[1], x[2]))},
             t2 \in {Fq2Sub(Fq2Square(x[2]), Fq2Mul(x[1], x[3]))}})

(***************************************************************************)
(* Native duodecimal extension Fq12 (ark): <<c0, c1>> over Fq6,           *)
(* c0 + c1*w with w^2 = v.                                                 *)
(***************************************************************************)
Fq12ONE == <<Fq6ONE, Fq6ZERO>>

Fq12Mul(x, y) ==
    Only({<<Fq6Add(aa, Fq6MulByV(bb)), Fq6Add(ab, ba)>> :
            aa \in {Fq6Mul(x[1], y[1])}, bb \in {Fq6Mul(x[2], y[2])},
            ab \in {Fq6Mul(x[1], y[2])}, ba \in {Fq6Mul(x[2], y[1])}})
Fq12Square(x) == Fq12Mul(x, x)
Fq12Conjugate(x) == <<x[1], Fq6Neg(x[2])>>
\* Fp12::mul_by_014: the product with the sparse element c0 + c1*v + d1*v*w
Fq12MulBy014(x, c0, c1, d1) ==
    Only({Fq12Mul(x, y) : y \in {<<(<<c0, c1, Fq2ZERO>>), (<<Fq2ZERO, d1, Fq2ZERO>>)>>}})

(***************************************************************************)
(* Circuit form.  FqTarget is the non-native base-field gadget; each      *)
(* gadget operation is the field operation on the witness values.         *)
(***************************************************************************)
FqTarget_add(a, b) == (a + b) % P
FqTarget_sub(a, b) == (a - b) % P
FqTarget_mul(a, b) == (a * b) % P
FqTarget_neg(a) == (0 - a) % P

\* coeffs[i] of a target whose coefficient array is kept as a tuple
Coeff(x, i) == x[i + 1]

(***************************************************************************)
(* Fq2Target: coeffs[0] + coeffs[1]*u.                                     *)
(***************************************************************************)
Fq2Target_constant(c) == <<c[1], c[2]>>
Fq2Target_add(a, b) ==
    <<FqTarget_add(Coeff(a, 0), Coeff(b, 0)), FqTarget_add(Coeff(a, 1), Coeff(b, 1))>>
Fq2Target_sub(a, b) ==
    <<FqTarget_sub(Coeff(a, 0), Coeff(b, 0)), FqTarget_sub(Coeff(a, 1), Coeff(b, 1))>>
Fq2Target_mul(a, b) ==
    <<FqTarget_sub(FqTarget_mul(Coeff(a, 0), Coeff(b, 0)), FqTarget_mul(Coeff(a, 1), Coeff(b, 1))),
      FqTarget_add(FqTarget_mul(Coeff(a, 0), Coeff(b, 1)), FqTarget_mul(Coeff(a, 1), Coeff(b, 0)))>>
\* multiplication by the quadratic non-residue 1 + u
Fq2Target_mul_by_nonresidue(a) ==
    <<FqTarget_sub(Coeff(a, 0), Coeff(a, 1)), FqTarget_add(Coeff(a, 0), Coeff(a, 1))>>
Fq2Target_mul_assign_by_fp(a, k) ==
    <<FqTarget_mul(Coeff(a, 0), k), FqTarget_mul(Coeff(a, 1), k)>>

(***************************************************************************)
(* MyFq6: the six-coefficient encoding of an Fq6 used by Fq6Target.       *)
(* coeffs[0..2] are the real parts of c0, c1, c2 and coeffs[3..5] their    *)
(* imaginary parts.                                                        *)
(***************************************************************************)
MyFq6_from(c) == <<c[1][1], c[2][1], c[3][1], c[1][2], c[2][2], c[3][2]>>
Fq6_from(m) ==
    <<(<<Coeff(m, 0), Coeff(m, 3)>>), (<<Coeff(m, 1), Coeff(m, 4)>>), (<<Coeff(m, 2), Coeff(m, 5)>>)>>

(***************************************************************************)
(* Fq6Target (src/src/fields/fq6_target.rs).                               *)
(***************************************************************************)
Fq6Target_constant(c) == MyFq6_from(c)

\* a connect that leaves the last coefficient out
Fq6Target_connect_upto5(lhs, rhs) == \A i \in 0 .. 4 : Coeff(lhs, i) = Coeff(rhs, i)
\* Fq6Target::connect: the constraint holds when all six coefficients agree
Fq6Target_connect(lhs, rhs) == \A i \in 0 .. 5 : Coeff(lhs, i) = Coeff(rhs, i)

Fq6Target_add(x, rhs) ==
    <<FqTarget_add(x[1], rhs[1]), FqTarget_add(x[2], rhs[2]), FqTarget_add(x[3], rhs[3]),
      FqTarget_add(x[4], rhs[4]), FqTarget_add(x[5], rhs[5]), FqTarget_add(x[6], rhs[6])>>
Fq6Target_neg(x) ==
    <<FqTarget_neg(x[1]), FqTarget_neg(x[2]), FqTarget_neg(x[3]),
      FqTarget_neg(x[4]), FqTarget_neg(x[5]), FqTarget_neg(x[6])>>
Fq6Target_sub(x, rhs) ==
    <<FqTarget_sub(x[1], rhs[1]), FqTarget_sub(x[2], rhs[2]), FqTarget_sub(x[3], rhs[3]),
      FqTarget_sub(x[4], rhs[4]), FqTarget_sub(x[5], rhs[5]), FqTarget_sub(x[6], rhs[6])>>

\* the entry k of one of the four cross products built by the double loop
\* over i, j in 0..3: the sum of a.coeffs[i + oa] * b.coeffs[j + ob], i + j = k
\* that entry with the inner loop one turn short
CrossCoeff_short(a, b, oa, ob, k) ==
    LET T(i) == IF (k - i) \in 0 .. 1
                THEN FqTarget_mul(Coeff(a, i + oa), Coeff(b, (k - i) + ob))
                ELSE 0
    IN  FqTarget_add(FqTarget_add(T(0), T(1)), T(2))
CrossCoeff(a, b, oa, ob, k) ==
    LET T(i) == IF (k - i) \in 0 .. 2
                THEN FqTarget_mul(Coeff(a, i + oa), Coeff(b, (k - i) + ob))
                ELSE 0
    IN  FqTarget_add(FqTarget_add(T(0), T(1)), T(2))

\* the five entries of one of the four cross products
Cross(a, b, oa, ob) ==
    <<CrossCoeff(a, b, oa, ob, 0), CrossCoeff(a, b, oa, ob, 1), CrossCoeff(a, b, oa, ob, 2),
      CrossCoeff(a, b, oa, ob, 3), CrossCoeff(a, b, oa, ob, 4)>>

Fq6Target_mul(a, b) ==
    Only({
        LET a0b0_minus_a1b1(i) == FqTarget_sub(Coeff(a0b0, i), Coeff(a1b1, i))
            a0b1_plus_a1b0(i) == FqTarget_add(Coeff(a0b1, i), Coeff(a1b0, i))
            lo(i) == IF i < 2
                     THEN LET term0 == a0b0_minus_a1b1(i)
                              term1 == FqTarget_mul(a0b0_minus_a1b1(i + 3), 1)
                              term2 == FqTarget_neg(a0b1_plus_a1b0(i + 3))
                          IN  FqTarget_add(FqTarget_add(term0, term1), term2)
                     ELSE a0b0_minus_a1b1(i)
            hi(i) == IF i < 2
                     THEN LET term0 == a0b1_plus_a1b0(i)
                              term1 == a0b0_minus_a1b1(i + 3)
                              term2 == FqTarget_mul(a0b1_plus_a1b0(i + 3), 1)
                          IN  FqTarget_add(FqTarget_add(term0, term1), term2)
                     ELSE a0b1_plus_a1b0(i)
        IN  <<lo(0), lo(1), lo(2), hi(0), hi(1), hi(2)>> :
        a0b0 \in {Cross(a, b, 0, 0)}, a0b1 \in {Cross(a, b, 0, 3)},
        a1b0 \in {Cross(a, b, 3, 0)}, a1b1 \in {Cross(a, b, 3, 3)}})

Fq6Target_mul_by_01(x, c0, c1) ==
    LET fq6_c0 == <<Coeff(x, 0), Coeff(x, 3)>>
        fq6_c1 == <<Coeff(x, 1), Coeff(x, 4)>>
        fq6_c2 == <<Coeff(x, 2), Coeff(x, 5)>>
    IN  Only({
            Only({<<Coeff(t1, 0), Coeff(t2, 0), Coeff(t3, 0),
                    Coeff(t1, 1), Coeff(t2, 1), Coeff(t3, 1)>> :
                    t1 \in {Fq2Target_add(
                               Fq2Target_mul_by_nonresidue(Fq2Target_mul(fq6_c2, c1)), a_a)},
                    t2 \in {Fq2Target_sub(
                               Fq2Target_sub(
                                   Fq2Target_mul(Fq2Target_add(c0, c1),
                                                 Fq2Target_add(fq6_c0, fq6_c1)),
                                   a_a),
                               b_b)},
                    t3 \in {Fq2Target_add(Fq2Target_mul(fq6_c2, c0), b_b)}}) :
            a_a \in {Fq2Target_mul(fq6_c0, c0)}, b_b \in {Fq2Target_mul(fq6_c1, c1)}})

\* mul_by_1 with t1 not multiplied by the non-residue
Fq6Target_mul_by_1_plain(x, c1) ==
    LET fq6_c0 == <<Coeff(x, 0), Coeff(x, 3)>>
        fq6_c1 == <<Coeff(x, 1), Coeff(x, 4)>>
        fq6_c2 == <<Coeff(x, 2), Coeff(x, 5)>>
    IN  Only({
            Only({<<Coeff(t1, 0), Coeff(t2, 0), Coeff(b_b, 0),
                    Coeff(t1, 1), Coeff(t2, 1), Coeff(b_b, 1)>> :
                    t1 \in {Fq2Target_sub(
                               Fq2Target_mul(c1, Fq2Target_add(fq6_c1, fq6_c2)), b_b)},
                    t2 \in {Fq2Target_sub(
                               Fq2Target_mul(c1, Fq2Target_add(fq6_c0, fq6_c1)), b_b)}}) :
            b_b \in {Fq2Target_mul(fq6_c1, c1)}})
Fq6Target_mul_by_1(x, c1) ==
    LET fq6_c0 == <<Coeff(x, 0), Coeff(x, 3)>>
        fq6_c1 == <<Coeff(x, 1), Coeff(x, 4)>>
        fq6_c2 == <<Coeff(x, 2), Coeff(x, 5)>>
    IN  Only({
            Only({<<Coeff(t1, 0), Coeff(t2, 0), Coeff(b_b, 0),
                    Coeff(t1, 1), Coeff(t2, 1), Coeff(b_b, 1)>> :
                    t1 \in {Fq2Target_mul_by_nonresidue(
                               Fq2Target_sub(
                                   Fq2Target_mul(c1, Fq2Target_add(fq6_c1, fq6_c2)), b_b))},
                    t2 \in {Fq2Target_sub(
                               Fq2Target_mul(c1, Fq2Target_add(fq6_c0, fq6_c1)), b_b)}}) :
            b_b \in {Fq2Target_mul(fq6_c1, c1)}})

\* the rotation of the coefficients alone, c2 not multiplied by the non-residue
Fq6Target_rotate(x) ==
    <<Coeff(x, 2), Coeff(x, 0), Coeff(x, 1), Coeff(x, 5), Coeff(x, 3), Coeff(x, 4)>>
Fq6Target_mul_by_nonresidue(x) ==
    LET fq6_c0 == <<Coeff(x, 0), Coeff(x, 3)>>
        fq6_c1 == <<Coeff(x, 1), Coeff(x, 4)>>
        fq6_c2 == <<Coeff(x, 2), Coeff(x, 5)>>
        c0 == Fq2Target_mul_by_nonresidue(fq6_c2)
        c1 == fq6_c0
        c2 == fq6_c1
    IN  <<Coeff(c0, 0), Coeff(c1, 0), Coeff(c2, 0), Coeff(c0, 1), Coeff(c1, 1), Coeff(c2, 1)>>

(***************************************************************************)
(* Fq12Target: <<c0, c1>>, two Fq6Target halves, c0 + c1*w.               *)
(***************************************************************************)
Fq12Target_constant(c) == <<Fq6Target_constant(c[1]), Fq6Target_constant(c[2])>>
\* the native value a filled Fq12Target stands for
Fq12_from(t) == <<Fq6_from(t[1]), Fq6_from(t[2])>>

Fq12Target_mul(x, rhs) ==
    Only({<<Fq6Target_add(a0b0, Fq6Target_mul_by_nonresidue(a1b1)), Fq6Target_add(a0b1, a1b0)>> :
            a0b0 \in {Fq6Target_mul(x[1], rhs[1])}, a1b1 \in {Fq6Target_mul(x[2], rhs[2])},
            a0b1 \in {Fq6Target_mul(x[1], rhs[2])}, a1b0 \in {Fq6Target_mul(x[2], rhs[1])}})

Fq12Target_conjugate(x) == <<x[1], Fq6Target_neg(x[2])>>

Fq12Target_mul_by_014(x, c0, c1, d1) ==
    Only({
        Only({<<Fq6Target_add(Fq6Target_mul_by_nonresidue(bb), aa),
                Fq6Target_sub(Fq6Target_sub(t, aa), bb)>> :
                t \in {Fq6Target_mul_by_01(s, c0, o)}}) :
        aa \in {Fq6Target_mul_by_01(x[1], c0, c1)}, bb \in {Fq6Target_mul_by_1(x[2], d1)},
        o \in {Fq2Target_add(c1, d1)}, s \in {Fq6Target_add(x[2], x[1])}})

(***************************************************************************)
(* The curve parameter (utils::constants).  BLS_X = 0xd201000000010000 is  *)
(* kept as the 64 bits of its u64 word, most significant first.           *)
(***************************************************************************)
BLS_X ==
    <<1,1,0,1,0,0,1,0, 0,0,0,0,0,0,0,1, 0,0,0,0,0,0,0,0, 0,0,0,0,0,0,0,0,
      0,0,0,0,0,0,0,0, 0,0,0,0,0,0,0,1, 0,0,0,0,0,0,0,0, 0,0,0,0,0,0,0,0>>
BLS_X_IS_NEGATIVE == TRUE

\* ark_ff::BitIteratorBE::new: every bit of the word, most significant first
BitIteratorBE_new(w) == w
\* ark_ff::BitIteratorBE::without_leading_zeros: from the first set bit on
RECURSIVE BitIteratorBE_without_leading_zeros(_)
BitIteratorBE_without_leading_zeros(w) ==
    IF w = <<>> \/ Head(w) = 1 THEN w ELSE BitIteratorBE_without_leading_zeros(Tail(w))
\* Iterator::skip(1)
Skip1(s) == IF s = <<>> THEN s ELSE Tail(s)

(***************************************************************************)
(* G2 preparation (src/src/native/miller_loop.rs).                         *)
(***************************************************************************)
COEFF_B == <<4, 4>>

G2Projective_double_in_place(r, two_inv) ==
    LET a == Fq2MulByFp(Fq2Mul(r.x, r.y), two_inv)
        b == Fq2Square(r.y)
        c == Fq2Square(r.z)
        e == Fq2Mul(COEFF_B, Fq2Add(Fq2Double(c), c))
        f == Fq2Add(Fq2Double(e), e)
        g == Fq2MulByFp(Fq2Add(b, f), two_inv)
        h == Fq2Sub(Fq2Square(Fq2Add(r.y, r.z)), Fq2Add(b, c))
        i == Fq2Sub(e, b)
        j == Fq2Square(r.x)
        e_square == Fq2Square(e)
    IN  [r |-> [x |-> Fq2Mul(a, Fq2Sub(b, f)),
                y |-> Fq2Sub(Fq2Square(g), Fq2Add(Fq2Double(e_square), e_square)),
                z |-> Fq2Mul(b, h)],
         coeff |-> <<i, Fq2Add(Fq2Double(j), j), Fq2Neg(h)>>]

G2Projective_add_in_place(r, q) ==
    LET qx == q.x
        qy == q.y
        theta == Fq2Sub(r.y, Fq2Mul(qy, r.z))
        lambda == Fq2Sub(r.x, Fq2Mul(qx, r.z))
        c == Fq2Square(theta)
        d == Fq2Square(lambda)
        e == Fq2Mul(lambda, d)
        f == Fq2Mul(r.z, c)
        g == Fq2Mul(r.x, d)
        h == Fq2Sub(Fq2Add(e, f), Fq2Double(g))
        j == Fq2Sub(Fq2Mul(theta, qx), Fq2Mul(lambda, qy))
    IN  [r |-> [x |-> Fq2Mul(lambda, h),
                y |-> Fq2Sub(Fq2Mul(theta, Fq2Sub(g, h)), Fq2Mul(e, r.y)),
                z |-> Fq2Mul(r.z, e)],
         coeff |-> <<j, Fq2Neg(theta), lambda>>]

\* a turn that pushes the doubling coefficient alone and skips the addition
PrepareTurn_double_only(st, q, i) ==
    Only({[ell_coeffs |-> Append(st.ell_coeffs, d.coeff), r |-> d.r] :
          d \in {G2Projective_double_in_place(st.r, FqInv(2))}})
\* one turn of the loop of G2Prepared::from: r is the projective accumulator,
\* ell_coeffs the coefficients pushed so far, i the bit of this turn
PrepareTurn(st, q, i) ==
    Only({IF i = 1
          THEN Only({[ell_coeffs |-> st.ell_coeffs \o <<d.coeff, s.coeff>>, r |-> s.r] :
                        s \in {G2Projective_add_in_place(d.r, q)}})
          ELSE [ell_coeffs |-> Append(st.ell_coeffs, d.coeff), r |-> d.r] :
          d \in {G2Projective_double_in_place(st.r, FqInv(2))}})

\* the turns lo..hi of that loop, in order (split in halves only to keep the
\* evaluation shallow)
RECURSIVE PrepareTurns(_, _, _, _, _)
PrepareTurns(st, q, bits, lo, hi) ==
    IF lo > hi THEN st
    ELSE IF lo = hi THEN PrepareTurn(st, q, bits[lo])
    ELSE LET mid == (lo + hi) \div 2
         IN  Only({PrepareTurns(m, q, bits, mid + 1, hi) :
                     m \in {PrepareTurns(st, q, bits, lo, mid)}})

\* the preparation without its short cut for the identity
G2Prepared_from_no_shortcut(q) ==
    LET bits == Skip1(BitIteratorBE_new(BLS_X))
        r == [x |-> q.x, y |-> q.y, z |-> Fq2ONE]
    IN  [ell_coeffs |->
             PrepareTurns([ell_coeffs |-> <<>>, r |-> r], q, bits, 1, Len(bits)).ell_coeffs,
         infinity |-> FALSE]
G2Prepared_from(q) ==
    IF q.infinity
    THEN [ell_coeffs |-> <<>>, infinity |-> TRUE]
    ELSE LET bits == Skip1(BitIteratorBE_new(BLS_X))
             r == [x |-> q.x, y |-> q.y, z |-> Fq2ONE]
         IN  [ell_coeffs |->
                  PrepareTurns([ell_coeffs |-> <<>>, r |-> r], q, bits, 1, Len(bits)).ell_coeffs,
              infinity |-> FALSE]

(***************************************************************************)
(* Bounds and the inputs drawn within them.                                *)
(***************************************************************************)
MaxPairs == 5      \* longest pair list given to multi_miller_loop
MaxSeed == 10      \* number of dense sextic elements among the inputs
MaxScalar == 2     \* largest scalar of the scaled unit elements among the inputs

\* affine G1 points on y^2 = x^3 + 4 and G2 points on y^2 = x^3 + 4(1+u)
G1Table == <<(<<1, 9>>), (<<4, 7>>), (<<6, 12>>), (<<7, 10>>), (<<9, 7>>), (<<0, 2>>), (<<1, 10>>)>>
G2Table ==
    <<(<<(<<0, 1>>), (<<3, 10>>)>>), (<<(<<0, 4>>), (<<16, 10>>)>>), (<<(<<0, 6>>), (<<3, 9>>)>>),
      (<<(<<0, 10>>), (<<1, 15>>)>>), (<<(<<0, 7>>), (<<16, 9>>)>>), (<<(<<0, 9>>), (<<3, 9>>)>>),
      (<<(<<0, 10>>), (<<18, 4>>)>>)>>

G1Affine_identity == [x |-> 0, y |-> 0, infinity |-> TRUE]
G1Point(i) ==
    LET t == G1Table[((i - 1) % Len(G1Table)) + 1]
    IN  [x |-> t[1], y |-> t[2], infinity |-> FALSE]
G2Affine_identity == [x |-> Fq2ZERO, y |-> Fq2ONE, infinity |-> TRUE]
G2Point(i) ==
    LET t == G2Table[((i - 1) % Len(G2Table)) + 1]
    IN  [x |-> t[1], y |-> t[2], infinity |-> FALSE]

(***************************************************************************)
(* Line evaluation and the value-level steps of the two Miller loops.      *)
(***************************************************************************)
Forms == {"native", "circuit"}
CHUNK == 4

\* the bit schedule of both loops
LoopBits == Skip1(BitIteratorBE_without_leading_zeros(BLS_X))
NBits == Len(LoopBits)

\* AffineRepr::xy / G1AffineTarget::xy: no coordinates for the point at infinity
G1AffineTarget_xy(p) == IF ~p.infinity THEN [some |-> TRUE, x |-> p.x, y |-> p.y] ELSE [some |-> FALSE]

ell(f, g2_coeffs, p) ==
    LET xy == G1AffineTarget_xy(p)
    IN  Only({Fq12MulBy014(f, g2_coeffs[1], c1, c2) :
                c2 \in {Fq2MulByFp(g2_coeffs[3], xy.y)},
                c1 \in {Fq2MulByFp(g2_coeffs[2], xy.x)}})

ell_target(f, g2_coeffs, p) ==
    LET xy == G1AffineTarget_xy(p)
    IN  Only({Fq12Target_mul_by_014(f, c0, c1, c2) :
                c0 \in {g2_coeffs[1]},
                c2 \in {Fq2Target_mul_assign_by_fp(g2_coeffs[3], xy.y)},
                c1 \in {Fq2Target_mul_assign_by_fp(g2_coeffs[2], xy.x)}})

\* the coefficient triple as the circuit holds it
EllCoeffTarget(c) == <<Fq2Target_constant(c[1]), Fq2Target_constant(c[2]), Fq2Target_constant(c[3])>>

InitF(F) == IF F = "native" THEN Fq12ONE ELSE Fq12Target_constant(Fq12ONE)
SquareF(F, f) == IF F = "native" THEN Fq12Square(f) ELSE Fq12Target_mul(f, f)
EllF(F, f, c, p) == IF F = "native" THEN ell(f, c, p) ELSE ell_target(f, EllCoeffTarget(c), p)

\* the last batch result alone
Iterator_last(fs) == IF fs = <<>> THEN Fq12ONE ELSE fs[Len(fs)]
\* Iterator::product over the batch results: a fold from one
RECURSIVE Product(_)
Product(fs) ==
    IF fs = <<>> THEN Fq12ONE
    ELSE Only({Fq12Mul(acc, fs[Len(fs)]) : acc \in {Product(SubSeq(fs, 1, Len(fs) - 1))}})

\* Fq12Target::multiply_elements: the first element times the others in order,
\* and no product of no elements
RECURSIVE FoldMul(_)
FoldMul(fs) ==
    IF Len(fs) = 1 THEN fs[1]
    ELSE Only({Fq12Target_mul(acc, fs[Len(fs)]) : acc \in {FoldMul(SubSeq(fs, 1, Len(fs) - 1))}})
Fq12Target_multiply_elements(fs) ==
    IF fs = <<>> THEN [some |-> FALSE] ELSE [some |-> TRUE, v |-> FoldMul(fs)]

\* a filter that does not look at the G1 point
G1AffineTarget_is_zero_unchecked(p) == FALSE
G1AffineTarget_is_zero(p) == p.infinity
G2Prepared_is_zero(q) == q.infinity

\* Iterator::zip, which ends with the shorter side
zip(as, bs, i) == IF i <= Len(as) /\ i <= Len(bs) THEN "some" ELSE "none"
\* itertools zip_eq at its turn i: an item of each side, the end of both, or a
\* panic when only one side has ended
zip_eq(as, bs, i) ==
    IF i <= Len(as) /\ i <= Len(bs) THEN "some"
    ELSE IF i > Len(as) /\ i > Len(bs) THEN "none"
    ELSE "panic"

\* zip_eq + filter_map + collect from turn i on: the pairs with neither side
\* the identity, each with the iterator over its coefficients at its start
RECURSIVE FilterPairs(_, _, _)
FilterPairs(as, bs, i) ==
    Only({
        IF nxt = "none" THEN [panic |-> FALSE, pairs |-> <<>>]
        ELSE IF nxt = "panic" THEN [panic |-> TRUE, pairs |-> <<>>]
        ELSE Only({
                [panic |-> rest.panic,
                 pairs |-> (IF ~G1AffineTarget_is_zero(as[i]) /\ ~G2Prepared_is_zero(bs[i])
                            THEN <<[p |-> as[i], q |-> i, pos |-> 0]>>
                            ELSE <<>>) \o rest.pairs] :
                rest \in {FilterPairs(as, bs, i + 1)}}) :
        nxt \in {zip_eq(as, bs, i)}})

\* chunks_mut(size) over n pairs: the batches, each starting at f = one
RECURSIVE Chunks(_, _, _, _)
Chunks(F, n, size, lo) ==
    IF lo > n THEN <<>>
    ELSE <<[lo |-> lo, n |-> IF lo + size - 1 <= n THEN size ELSE n - lo + 1,
            f |-> InitF(F), bit |-> 1, ph |-> "square", j |-> 0]>>
         \o Chunks(F, n, size, lo + size)

(***************************************************************************)
(* State.  The two forms of multi_miller_loop run side by side on the same *)
(* inputs; st, pairs, batch, out and count hold one entry per form.        *)
(***************************************************************************)
VARIABLES
    a,           \* the prepared G1 points given to multi_miller_loop
    b,           \* the prepared G2 points given to multi_miller_loop
    prepared,    \* those points as G2Prepared::from returned them, before the
                 \* caller handed them over
    chunk_size,  \* the size each form hands to cfg_chunks_mut!
    parallel,    \* whether the build has the feature under which cfg_chunks_mut!
                 \* is par_chunks_mut, so that the chunks of the native form run
                 \* concurrently
    st,          \* where each form's call stands, or how it failed
    pairs,       \* the collected pairs: [p, q, pos], the G1 point and the iterator over
                 \* b[q].ell_coeffs, of which pos coefficients are taken
    batch,       \* the chunks: [lo, n, f, bit, ph, j]
    out,         \* the combined product f after the chunks, <<>> before
    count,       \* how many squarings and line evaluations each form has done
    folded,      \* the chunks whose result has been multiplied into the product
    conjugated,  \* how many times each form has conjugated
    x6,          \* the Fq6Target an Fq6Target operation is applied to
    op6,         \* that operation
    arg6,        \* its other operands
    out6,        \* its result
    cphase,      \* the phase of the circuit around Fq6Target::inv
    inv6         \* the values in the output wires of Fq6Target::inv

millerVars == <<a, b, prepared, chunk_size, parallel, st, pairs, batch, out, count, folded, conjugated>>
fq6Vars == <<x6, op6, arg6, out6, cphase, inv6>>
vars ==
    <<a, b, prepared, chunk_size, parallel, st, pairs, batch, out, count, folded, conjugated,
      x6, op6, arg6, out6, cphase, inv6>>

\* a chunk is done when its loop over the bits has ended
BatchDone(bt) == bt.bit > NBits
\* the two calls share no state, so the order of their steps does not matter:
\* they are taken together while the forms chunk alike, the native call first
\* otherwise
InTurn(F) ==
    \/ chunk_size["native"] = chunk_size["circuit"]
    \/ F = "native"
    \/ st["native"] \notin {"start", "loop", "combined"}
\* chunks are taken one after another: by the for loop of the circuit form and
\* by chunks_mut in the native form; under par_chunks_mut the chunks of the
\* native form are taken in any order, their steps interleaved
Ready(F, k) ==
    /\ st[F] = "loop"
    /\ InTurn(F)
    /\ k \in DOMAIN batch[F]
    /\ ~BatchDone(batch[F][k])
    /\ \/ parallel /\ F = "native"
       \/ \A m \in 1 .. (k - 1) : BatchDone(batch[F][m])

\* zip_eq, filter_map and collect, then cfg_chunks_mut!(pairs, 4)
Collect ==
    \E S \in {{F \in Forms : st[F] = "start" /\ InTurn(F)}},
       c \in {FilterPairs(a, b, 1)} :
        /\ S # {}
        /\ st' = [F \in Forms |->
                    IF F \notin S THEN st[F]
                    ELSE IF c.panic THEN "panic_zip_eq" ELSE "loop"]
        /\ pairs' = [F \in Forms |-> IF F \in S /\ ~c.panic THEN c.pairs ELSE pairs[F]]
        /\ batch' = [F \in Forms |->
                    IF F \in S /\ ~c.panic
                    THEN Chunks(F, Len(c.pairs), chunk_size[F], 1)
                    ELSE batch[F]]
        /\ UNCHANGED <<a, b, prepared, chunk_size, parallel, out, count, folded, conjugated, fq6Vars>>

\* f.square_in_place() / f = f.mul(builder, &f), first in every turn of the bit loop
Square(k) ==
    LET S == {F \in Forms : Ready(F, k) /\ batch[F][k].ph = "square"}
    IN  /\ S # {}
        /\ batch' = [F \in Forms |->
                IF F \in S
                THEN [batch[F] EXCEPT ![k].f = SquareF(F, @), ![k].ph = "ell1", ![k].j = 0]
                ELSE batch[F]]
        /\ count' = [F \in Forms |->
                IF F \in S THEN [count[F] EXCEPT !.square = @ + 1] ELSE count[F]]
        /\ UNCHANGED <<a, b, prepared, chunk_size, parallel, st, pairs, out, folded, conjugated, fq6Vars>>

\* the pair indexed in the whole list, not in the chunk
PairAt_of_list(F, k) == pairs[F][batch[F][k].j + 1]
\* the pair the inner loop of chunk k stands at
PairAt(F, k) == pairs[F][batch[F][k].lo + batch[F][k].j]
\* coeffs.next(): Some while coefficients are left
HasNext(F, k) == PairAt(F, k).pos < Len(b[PairAt(F, k).q].ell_coeffs)
\* the second pass made whether the bit is set or not
Advance_always_twice(bt) ==
    IF bt.j + 1 < bt.n THEN [bt EXCEPT !.j = @ + 1]
    ELSE IF bt.ph = "ell1" THEN [bt EXCEPT !.ph = "ell2", !.j = 0]
    ELSE [bt EXCEPT !.ph = "square", !.j = 0, !.bit = @ + 1]
\* the chunk after one more pair of the pass: the next pair, the second pass
\* when the bit is set, or the next bit
Advance(bt) ==
    IF bt.j + 1 < bt.n THEN [bt EXCEPT !.j = @ + 1]
    ELSE IF bt.ph = "ell1" /\ LoopBits[bt.bit] = 1 THEN [bt EXCEPT !.ph = "ell2", !.j = 0]
    ELSE [bt EXCEPT !.ph = "square", !.j = 0, !.bit = @ + 1]

\* ell(&mut f, coeffs.next().unwrap(), p.0) for the next pair of chunk k
Ell(k) ==
    LET S == {F \in Forms : Ready(F, k) /\ batch[F][k].ph \in {"ell1", "ell2"}}
        ok(F) == F \in S /\ HasNext(F, k) /\ G1AffineTarget_xy(PairAt(F, k).p).some
    IN  /\ S # {}
        /\ st' = [F \in Forms |->
                IF F \notin S \/ ok(F) THEN st[F]
                ELSE IF ~HasNext(F, k) THEN "panic_next_unwrap" ELSE "panic_xy_unwrap"]
        /\ batch' = [F \in Forms |->
                IF ok(F)
                THEN [batch[F] EXCEPT ![k] =
                        Advance([@ EXCEPT !.f =
                            EllF(F, @, b[PairAt(F, k).q].ell_coeffs[PairAt(F, k).pos + 1],
                                 PairAt(F, k).p)])]
                ELSE batch[F]]
        /\ pairs' = [F \in Forms |->
                IF ok(F)
                THEN [pairs[F] EXCEPT ![batch[F][k].lo + batch[F][k].j].pos = @ + 1]
                ELSE pairs[F]]
        /\ count' = [F \in Forms |->
                IF ok(F) THEN [count[F] EXCEPT !.ell = @ + 1] ELSE count[F]]
        /\ folded' = [F \in Forms |->
                IF ok(F) /\ F = "native" /\ BatchDone(batch'[F][k])
                THEN folded[F] \cup {k}
                ELSE folded[F]]
        /\ UNCHANGED <<a, b, prepared, chunk_size, parallel, out, conjugated, fq6Vars>>

\* the results of the chunks, in order
BatchResults(F) == [k \in DOMAIN batch[F] |-> batch[F][k].f]
\* the end taken as reached once the first chunk is done
AllDone_first(F) ==
    st[F] = "loop" /\ InTurn(F) /\ \A k \in DOMAIN batch[F] : k = 1 => BatchDone(batch[F][k])
AllDone(F) == st[F] = "loop" /\ InTurn(F) /\ \A k \in DOMAIN batch[F] : BatchDone(batch[F][k])

\* .product() / Fq12Target::multiply_elements(..).unwrap() once every chunk is done
Combine ==
    \E S \in {{F \in Forms : AllDone(F)}},
       m \in {Fq12Target_multiply_elements(BatchResults("circuit"))} :
        /\ S # {}
        /\ st' = [F \in Forms |->
                IF F \notin S THEN st[F]
                ELSE IF F = "circuit" /\ ~m.some THEN "panic_product_unwrap"
                ELSE "combined"]
        /\ out' = [F \in Forms |->
                IF F \notin S THEN out[F]
                ELSE IF F = "native" THEN Product(BatchResults(F))
                ELSE IF m.some THEN m.v ELSE out[F]]
        /\ folded' = [F \in Forms |->
                IF F \in S /\ F = "circuit" /\ m.some THEN DOMAIN batch[F] ELSE folded[F]]
        /\ UNCHANGED <<a, b, prepared, chunk_size, parallel, pairs, batch, count, conjugated, fq6Vars>>

\* if BLS_X_IS_NEGATIVE { f.conjugate_in_place() }, then return f
Conjugate ==
    LET S == {F \in Forms : st[F] = "combined" /\ InTurn(F)}
    IN  /\ S # {}
        /\ st' = [F \in Forms |-> IF F \in S THEN "done" ELSE st[F]]
        /\ out' = [F \in Forms |->
                IF F \in S /\ BLS_X_IS_NEGATIVE
                THEN (IF F = "native" THEN Fq12Conjugate(out[F]) ELSE Fq12Target_conjugate(out[F]))
                ELSE out[F]]
        /\ conjugated' = [F \in Forms |->
                IF F \in S /\ BLS_X_IS_NEGATIVE THEN conjugated[F] + 1 ELSE conjugated[F]]
        /\ UNCHANGED <<a, b, prepared, chunk_size, parallel, pairs, batch, count, folded, fq6Vars>>

(***************************************************************************)
(* Fq6Target operations, applied to the witness values of their operands.  *)
(***************************************************************************)
Fq6TargetONE == Fq6Target_constant(Fq6ONE)

\* the operands the operations are applied to
Unit6(i, k) ==
    <<IF i = 1 THEN k ELSE 0, IF i = 2 THEN k ELSE 0, IF i = 3 THEN k ELSE 0,
      IF i = 4 THEN k ELSE 0, IF i = 5 THEN k ELSE 0, IF i = 6 THEN k ELSE 0>>
Seed6(k) ==
    <<(k * k + 1) % P, (3 * k + 2) % P, (5 * k * k + k) % P,
      (7 * k + 3) % P, (k * k * k + 4) % P, (11 * k + 5) % P>>
Seed2(k) == <<(2 * k * k + 3) % P, (5 * k + 1) % P>>

Fq6Inputs ==
    {Unit6(1, 0)} \cup {Unit6(i, k) : i \in 1 .. 6, k \in 1 .. MaxScalar}
                  \cup {Seed6(k) : k \in 1 .. MaxSeed}
Fq2Inputs == {Fq2ZERO, Fq2ONE, <<0, 1>>} \cup {Seed2(k) : k \in 1 .. MaxSeed}
\* the values a prover may place in the output wires of inv: the inputs, the
\* inverse and its neighbours
Candidates(x) ==
    LET i == Fq6Inverse(Fq6_from(x))
    IN  Fq6Inputs \cup
        (IF i = <<>> THEN {}
         ELSE {MyFq6_from(i)} \cup {Fq6Target_add(MyFq6_from(i), Unit6(n, 1)) : n \in 1 .. 6})

Fq6Target_mul_step(y) ==
    /\ op6 = "none"
    /\ op6' = "mul" /\ arg6' = <<y>> /\ out6' = Fq6Target_mul(x6, y)
    /\ UNCHANGED <<x6, cphase, inv6, millerVars>>

Fq6Target_mul_by_01_step(c0, c1) ==
    /\ op6 = "none"
    /\ op6' = "mul_by_01" /\ arg6' = <<c0, c1>> /\ out6' = Fq6Target_mul_by_01(x6, c0, c1)
    /\ UNCHANGED <<x6, cphase, inv6, millerVars>>

Fq6Target_mul_by_1_step(c1) ==
    /\ op6 = "none"
    /\ op6' = "mul_by_1" /\ arg6' = <<c1>> /\ out6' = Fq6Target_mul_by_1(x6, c1)
    /\ UNCHANGED <<x6, cphase, inv6, millerVars>>

Fq6Target_mul_by_nonresidue_step ==
    /\ op6 = "none"
    /\ op6' = "mul_by_nonresidue" /\ arg6' = <<>> /\ out6' = Fq6Target_mul_by_nonresidue(x6)
    /\ UNCHANGED <<x6, cphase, inv6, millerVars>>

\* Fq6Target::inv at construction: fresh output wires, the generator and the
\* constraint connect(self.mul(inv), one) are registered; no value is read
Fq6Target_inv ==
    /\ op6 = "none"
    /\ op6' = "inv" /\ cphase' = "built"
    /\ UNCHANGED <<x6, arg6, out6, inv6, millerVars>>

\* run_once writing the zero element where there is no inverse
Fq6InverseGenerator_run_once_or_default ==
    /\ op6 = "inv" /\ cphase = "built"
    /\ \E inv_x \in {Fq6Inverse(Fq6_from(x6))} :
           /\ cphase' = "filled"
           /\ inv6' = IF inv_x = <<>> THEN MyFq6_from(Fq6ZERO) ELSE MyFq6_from(inv_x)
    /\ UNCHANGED <<x6, op6, arg6, out6, millerVars>>
\* run_once writing the inverse in the order of its quadratic coefficients
Fq6InverseGenerator_run_once_flat ==
    /\ op6 = "inv" /\ cphase = "built"
    /\ \E inv_x \in {Fq6Inverse(Fq6_from(x6))} :
           IF inv_x = <<>>
           THEN cphase' = "panic_inverse_unwrap" /\ inv6' = inv6
           ELSE /\ cphase' = "filled"
                /\ inv6' = <<inv_x[1][1], inv_x[1][2], inv_x[2][1],
                             inv_x[2][2], inv_x[3][1], inv_x[3][2]>>
    /\ UNCHANGED <<x6, op6, arg6, out6, millerVars>>
\* witness filling: Fq6InverseGenerator::run_once writes x.inverse().unwrap()
Fq6InverseGenerator_run_once ==
    /\ op6 = "inv" /\ cphase = "built"
    /\ \E inv_x \in {Fq6Inverse(Fq6_from(x6))} :
           IF inv_x = <<>>
           THEN cphase' = "panic_inverse_unwrap" /\ inv6' = inv6
           ELSE cphase' = "filled" /\ inv6' = MyFq6_from(inv_x)
    /\ UNCHANGED <<x6, op6, arg6, out6, millerVars>>

\* witness filling by a prover that places a value of its own in the output wires
PlaceCandidate ==
    /\ op6 = "inv" /\ cphase = "built"
    /\ \E y \in Candidates(x6) : inv6' = y
    /\ op6' = "inv_candidate" /\ cphase' = "filled"
    /\ UNCHANGED <<x6, arg6, out6, millerVars>>

\* proving: the registered constraint connect(x_mul_inv, one) is checked
Prove ==
    /\ cphase = "filled"
    /\ \E x_mul_inv \in {Fq6Target_mul(x6, inv6)} :
           /\ out6' = x_mul_inv
           /\ cphase' = IF Fq6Target_connect(x_mul_inv, Fq6TargetONE) THEN "proved" ELSE "unsat"
    /\ UNCHANGED <<x6, op6, arg6, inv6, millerVars>>

(***************************************************************************)
(* Inputs.                                                                 *)
(***************************************************************************)
PairKinds == {"g1inf", "g2inf", "bothinf", "short", "long", "infcoeffs"}
G1In(i, kind) == IF kind \in {"g1inf", "bothinf"} THEN G1Affine_identity ELSE G1Point(i)
\* what a caller can hand over as a prepared G2 point: G2Prepared::from of a
\* point or of the identity, or such a value with its public fields altered
G2In(i, kind) ==
    IF kind \in {"g2inf", "bothinf"} THEN G2Prepared_from(G2Affine_identity)
    ELSE Only({
        CASE kind = "short" ->
               [q EXCEPT !.ell_coeffs = SubSeq(q.ell_coeffs, 1, Len(q.ell_coeffs) - 1)]
          [] kind = "long" -> [q EXCEPT !.ell_coeffs = Append(q.ell_coeffs, q.ell_coeffs[1])]
          [] kind = "infcoeffs" -> [q EXCEPT !.infinity = TRUE]
          [] OTHER -> q :
        q \in {G2Prepared_from(G2Point(i))}})
\* n points, the one at position s (if any) of the given kind
G1List(n, s, kind) == [i \in 1 .. n |-> G1In(i, IF i = s THEN kind ELSE "ok")]
G2List(n, s, kind) == [i \in 1 .. n |-> G2In(i, IF i = s THEN kind ELSE "ok")]
\* the kind of what G2Prepared::from returned, before the caller altered it
Origin(kind) == IF kind \in {"g2inf", "bothinf"} THEN kind ELSE "ok"
\* the shapes <<n, m, s, kind>> of the inputs: n G1 points and m G2 points, all
\* proper, or of equal number with one pair of a special kind
MillerInputs ==
    {<<n, m, 0, "ok">> : n \in 0 .. MaxPairs, m \in 0 .. MaxPairs}
    \cup {<<n, n, s, kind>> : n \in 1 .. MaxPairs, s \in 1 .. MaxPairs, kind \in PairKinds}
\* the batch sizes compared with the size of the code
BatchSizes ==
    {cs \in [Forms -> 1 .. MaxPairs] : cs["native"] = CHUNK \/ cs["circuit"] = CHUNK}

MillerIdle ==
    /\ a = <<>> /\ b = <<>> /\ prepared = <<>>
    /\ chunk_size = [F \in Forms |-> CHUNK] /\ parallel = FALSE
    /\ st = [F \in Forms |-> "idle"]
    /\ folded = [F \in Forms |-> {}]
    /\ conjugated = [F \in Forms |-> 0]
    /\ pairs = [F \in Forms |-> <<>>]
    /\ batch = [F \in Forms |-> <<>>]
    /\ out = [F \in Forms |-> <<>>]
    /\ count = [F \in Forms |-> [square |-> 0, ell |-> 0]]
Fq6Idle ==
    /\ x6 = <<>> /\ op6 = "idle" /\ arg6 = <<>> /\ out6 = <<>> /\ cphase = "idle" /\ inv6 = <<>>

MillerStart ==
    /\ pairs = [F \in Forms |-> <<>>]
    /\ batch = [F \in Forms |-> <<>>]
    /\ out = [F \in Forms |-> <<>>]
    /\ count = [F \in Forms |-> [square |-> 0, ell |-> 0]]
    /\ folded = [F \in Forms |-> {}]
    /\ conjugated = [F \in Forms |-> 0]
    /\ Fq6Idle

InitMiller ==
    /\ \E in \in MillerInputs :
            /\ in[3] <= in[1]
            /\ a = G1List(in[1], in[3], in[4])
            /\ b = G2List(in[2], in[3], in[4])
            /\ prepared = G2List(in[2], in[3], Origin(in[4]))
    /\ chunk_size = [F \in Forms |-> CHUNK] /\ parallel = FALSE
    /\ st = [F \in Forms |-> "start"]
    /\ MillerStart

\* the same call with the proper inputs and the batch size varied
InitBatch ==
    /\ \E n \in 0 .. MaxPairs : a = G1List(n, 0, "ok") /\ b = G2List(n, 0, "ok") /\ prepared = b
    /\ chunk_size \in BatchSizes /\ parallel = FALSE
    /\ st = [F \in Forms |-> "start"]
    /\ MillerStart

\* the native form alone in a build where cfg_chunks_mut! is par_chunks_mut (the
\* for loop of the circuit form needs chunks_mut), on proper inputs
InitPar ==
    /\ \E n \in 0 .. MaxPairs : a = G1List(n, 0, "ok") /\ b = G2List(n, 0, "ok") /\ prepared = b
    /\ chunk_size = [F \in Forms |-> CHUNK] /\ parallel = TRUE
    /\ st = [F \in Forms |-> IF F = "native" THEN "start" ELSE "idle"]
    /\ MillerStart

InitFq6 ==
    /\ x6 \in Fq6Inputs
    /\ op6 = "none" /\ arg6 = <<>> /\ out6 = <<>> /\ cphase = "unbuilt" /\ inv6 = <<>>
    /\ MillerIdle

Init == InitMiller \/ InitFq6

NextMiller ==
    \/ Collect
    \/ \E k \in 1 .. MaxPairs : Square(k)
    \/ \E k \in 1 .. MaxPairs : Ell(k)
    \/ Combine
    \/ Conjugate

NextFq6 ==
    \/ \E y \in Fq6Inputs : Fq6Target_mul_step(y)
    \/ \E c0 \in Fq2Inputs, c1 \in Fq2Inputs : Fq6Target_mul_by_01_step(c0, c1)
    \/ \E c1 \in Fq2Inputs : Fq6Target_mul_by_1_step(c1)
    \/ Fq6Target_mul_by_nonresidue_step
    \/ Fq6Target_inv
    \/ Fq6InverseGenerator_run_once
    \/ PlaceCandidate
    \/ Prove

Next == NextMiller \/ NextFq6

Spec == Init /\ [][Next]_vars
SpecMiller == InitMiller /\ [][NextMiller]_vars
SpecFq6 == InitFq6 /\ [][NextFq6]_vars
SpecBatch == InitBatch /\ [][NextMiller]_vars
SpecPar == InitPar /\ [][NextMiller]_vars

(***************************************************************************)
(* Properties of multi_miller_loop.                                        *)
(***************************************************************************)
\* how a call can fail
Panics == {"panic_zip_eq", "panic_next_unwrap", "panic_xy_unwrap", "panic_product_unwrap"}
\* the circuit value read as the native value it stands for; no value stays no value
Fq12_of(F, v) == IF v = <<>> \/ F = "native" THEN v ELSE Fq12_from(v)
\* a chunk of a form with its accumulator read as a native value
BatchOf(F, k) == [batch[F][k] EXCEPT !.f = Fq12_of(F, @)]
\* the number of coefficients the loop takes from a pair
Needed == NBits + Cardinality({i \in 1 .. NBits : LoopBits[i] = 1})
\* the positions of the pairs that survive the filter, and of those that do not
Kept == {i \in DOMAIN a \cap DOMAIN b : ~a[i].infinity /\ ~b[i].infinity}
IdentityAt == {i \in DOMAIN a : Len(a) = Len(b) /\ (a[i].infinity \/ b[i].infinity)}
\* a sequence without its element at position s
Remove(seq, s) == SubSeq(seq, 1, s - 1) \o SubSeq(seq, s + 1, Len(seq))
\* the collected pairs as what they hold: the G1 point and the coefficients
Content(ps, bs) == [k \in DOMAIN ps |-> <<ps[k].p, bs[ps[k].q].ell_coeffs>>]

BatchInvariance ==
    /\ (st["native"] = "done" /\ st["circuit"] = "done")
          => Fq12_of("circuit", out["circuit"]) = out["native"]
    /\ st["native"] \notin Panics
    /\ st["circuit"] \in Panics => (st["circuit"] = "panic_product_unwrap" /\ Kept = {})
    /\ \A F \in Forms : \A k \in DOMAIN batch[F] : batch[F][k].n <= chunk_size[F]
\* both forms have returned, the native one from more batches of one pair
\* each than the batch size of the code holds
BatchInvarianceWitness ==
    /\ st["native"] = "done" /\ st["circuit"] = "done"
    /\ chunk_size["native"] = 1 /\ chunk_size["circuit"] = CHUNK
    /\ Len(batch["native"]) > CHUNK /\ Len(batch["circuit"]) = 2

\* C4: with sequences of different lengths each form fails at zip_eq, and a
\* form that failed there has collected no pair, made no chunk, squared no
\* accumulator, evaluated no line and returned no value.
LengthMismatchFails ==
    \A F \in Forms :
        /\ (Len(a) # Len(b) /\ st[F] # "start") => st[F] = "panic_zip_eq"
        /\ st[F] = "panic_zip_eq" =>
              /\ Len(a) # Len(b)
              /\ pairs[F] = <<>> /\ batch[F] = <<>> /\ out[F] = <<>>
              /\ count[F] = [square |-> 0, ell |-> 0]
\* both forms have failed on a longer G1 sequence and a non-empty G2 sequence
LengthMismatchWitness ==
    /\ st["native"] = "panic_zip_eq" /\ st["circuit"] = "panic_zip_eq"
    /\ Len(a) > Len(b) /\ Len(b) > 0

\* the surviving pairs whose coefficient sequence is shorter, or longer, than
\* what the loop takes
OverConsumed == {i \in Kept : Len(a) = Len(b) /\ Len(b[i].ell_coeffs) < Needed}
UnderConsumed == {i \in Kept : Len(a) = Len(b) /\ Len(b[i].ell_coeffs) > Needed}
\* a violated precondition of the circuit form
PreconditionViolated ==
    \/ op6 \in {"inv", "inv_candidate"} /\ x6 = Fq6Target_constant(Fq6ZERO)
    \/ Len(a) # Len(b)
    \/ OverConsumed # {}
    \/ UnderConsumed # {}

\* C5, as the specification states it: with a precondition violated, the
\* construction of the circuit does not fail.
ConstructionNeverFails == PreconditionViolated => st["circuit"] \notin Panics

\* C5, as the code has it: inverting zero passes construction and fails at
\* witness filling, where the generator writes nothing; different lengths
\* and a coefficient sequence that ends too soon fail during construction,
\* which is where multi_miller_loop runs; a coefficient sequence with
\* coefficients left over never fails.
CircuitPreconditionFailures ==
    /\ cphase = "panic_inverse_unwrap" => (op6 = "inv" /\ x6 = Fq6Target_constant(Fq6ZERO))
    /\ (op6 = "inv" /\ x6 = Fq6Target_constant(Fq6ZERO))
          => cphase \in {"built", "panic_inverse_unwrap"}
    /\ (Len(a) # Len(b) /\ st["circuit"] # "start") => st["circuit"] = "panic_zip_eq"
    /\ OverConsumed # {} => st["circuit"] \in {"start", "loop", "panic_next_unwrap"}
    /\ st["circuit"] = "panic_next_unwrap" => OverConsumed # {}
    /\ UnderConsumed # {} => st["circuit"] \notin Panics
    /\ (UnderConsumed # {} /\ st["circuit"] = "done") =>
          \A k \in DOMAIN pairs["circuit"] : pairs["circuit"][k].pos = Needed
\* the construction has failed at coeffs.next().unwrap(), after line
\* evaluations of earlier turns
CircuitPreconditionWitness ==
    /\ st["circuit"] = "panic_next_unwrap"
    /\ count["circuit"].ell > NBits

(***************************************************************************)
(* Properties of the Fq6Target operations.                                 *)
(***************************************************************************)
\* the sextic target with quadratic coefficients c0, c1, c2
Fq6Target_of(c0, c1, c2) == Fq6Target_constant(<<c0, c1, c2>>)
\* the generator has filled the output wires of inv
GeneratorFilled == op6 = "inv" /\ cphase \in {"filled", "proved", "unsat"}
\* the true inverse of the input of inv is in its output wires
TrueInverse ==
    /\ x6 # Fq6Target_constant(Fq6ZERO)
    /\ Fq6_from(inv6) = Fq6Inverse(Fq6_from(x6))

\* C6: for a non-zero x the generator does not fail, and the value it writes
\* makes the circuit mul formula of x and it the constant one in all six
\* coefficients, so that the constraint holds, and is the native inverse of x.
InverseRoundTrip ==
    /\ (op6 = "inv" /\ x6 # Fq6Target_constant(Fq6ZERO)) => cphase # "panic_inverse_unwrap"
    /\ GeneratorFilled =>
          /\ Fq6Target_mul(x6, inv6) = Fq6Target_constant(Fq6ONE)
          /\ TrueInverse
          /\ Fq6Mul(Fq6_from(x6), Fq6_from(inv6)) = Fq6ONE
          /\ cphase # "unsat"
\* the constraint has been checked on what the generator wrote for a dense x
InverseRoundTripWitness ==
    /\ op6 = "inv" /\ cphase = "proved"
    /\ x6 = Seed6(2) /\ inv6 # x6

\* C7: the constraint accepts what is in the output wires only if that is the
\* true inverse of x, and rejects every other value; with x zero it rejects
\* every value.
InverseChecked ==
    /\ cphase = "proved" => TrueInverse
    /\ cphase = "unsat" => ~TrueInverse
    /\ (cphase \in {"proved", "unsat"} /\ TrueInverse) => cphase = "proved"
\* a value placed by the prover next to the true inverse of a non-zero x has
\* been rejected
InverseCheckedWitness ==
    /\ op6 = "inv_candidate" /\ cphase = "unsat"
    /\ x6 = Fq6Target_constant(Fq6ONE)
    /\ inv6 = Fq6Target_add(x6, Unit6(6, 1))

\* C8: Fq6Target::mul returns the product in Fq2[v]/(v^3 - (1+u)): read as a
\* native value its result is the native product of its operands; the
\* coefficients 0 and 1 are those of the polynomial product plus the
\* non-residue times its coefficients of degree 3 and 4, and coefficient 2 is
\* that of the polynomial product alone.
MulIsFieldProduct ==
    op6 = "mul" =>
        \E x \in {Fq6_from(x6)}, y \in {Fq6_from(arg6[1])}, r \in {Fq6_from(out6)} :
            /\ r = Fq6Mul(x, y)
            /\ r[1] = Fq2Add(PolyProduct(x, y)[1], Fq2Mul(NONRESIDUE, PolyProduct(x, y)[4]))
            /\ r[2] = Fq2Add(PolyProduct(x, y)[2], Fq2Mul(NONRESIDUE, PolyProduct(x, y)[5]))
            /\ r[3] = PolyProduct(x, y)[3]
\* two dense elements whose product has terms of degree 3 and 4 have been
\* multiplied
MulIsFieldProductWitness ==
    /\ op6 = "mul" /\ x6 = Seed6(1) /\ arg6 = <<Seed6(2)>>
    /\ PolyProduct(Fq6_from(x6), Fq6_from(arg6[1]))[4] # Fq2ZERO
    /\ PolyProduct(Fq6_from(x6), Fq6_from(arg6[1]))[5] # Fq2ZERO

\* C9: mul_by_01(x, c0, c1) is mul(x, e01) with e01 of quadratic coefficients
\* (c0, c1, 0), and mul_by_1(x, c1) is mul(x, e1) with e1 of quadratic
\* coefficients (0, c1, 0), coefficient by coefficient.
SparseProductsAgree ==
    /\ op6 = "mul_by_01" =>
          out6 = Fq6Target_mul(x6, Fq6Target_of(arg6[1], arg6[2], Fq2ZERO))
    /\ op6 = "mul_by_1" =>
          out6 = Fq6Target_mul(x6, Fq6Target_of(Fq2ZERO, arg6[1], Fq2ZERO))
\* a dense element has been multiplied by a sparse one with c1 not zero
SparseProductsWitness ==
    /\ op6 = "mul_by_1" /\ x6 = Seed6(3) /\ arg6 = <<Seed2(1)>>
    /\ out6 # Fq6Target_constant(Fq6ZERO)

\* C10: mul_by_nonresidue takes the quadratic coefficients (c0, c1, c2) to
\* (c2 * (1+u), c0, c1), which is mul(x, v).
MulByNonresidueIsMulByV ==
    op6 = "mul_by_nonresidue" =>
        \E x \in {Fq6_from(x6)} :
            /\ Fq6_from(out6) = <<Fq2Mul(x[3], NONRESIDUE), x[1], x[2]>>
            /\ out6 = Fq6Target_mul(x6, Fq6Target_constant(Fq6V))
            /\ Fq6_from(out6) = Fq6Mul(x, Fq6V)
\* a dense element has been multiplied by v
MulByNonresidueWitness ==
    /\ op6 = "mul_by_nonresidue" /\ x6 = Seed6(1)
    /\ Fq6_from(out6)[1] # Fq6_from(x6)[3]

(***************************************************************************)
(* Properties of the coefficient sequences.                                *)
(***************************************************************************)
\* the bits the loop of G2Prepared::from iterates
EmitBits == Skip1(BitIteratorBE_new(BLS_X))
\* the prepared point at position q is as G2Prepared::from returned it
FromPrepared(q) == b[q] = prepared[q]
\* one triple per bit after the leading bit and one more per set bit
EmittedCount == Len(EmitBits) + Cardinality({i \in DOMAIN EmitBits : EmitBits[i] = 1})
\* the chunk a form is at
Current(F) ==
    CHOOSE k \in DOMAIN batch[F] :
        ~BatchDone(batch[F][k]) /\ \A m \in 1 .. (k - 1) : BatchDone(batch[F][m])
\* the positions in pairs of the pairs of a chunk
PairsOf(bt) == bt.lo .. (bt.lo + bt.n - 1)

\* C11: a pair whose G2 point is as G2Prepared::from returned it is never the
\* pair at which coeffs.next().unwrap() fails, never has more coefficients
\* taken than it holds, and once its chunk has completed its last bit step has
\* all of them taken, as many as were emitted: one per bit after the leading
\* bit of BitIteratorBE::new plus one per set bit.
ExactConsumption ==
    /\ \A i \in DOMAIN prepared :
          ~prepared[i].infinity => Len(prepared[i].ell_coeffs) = EmittedCount
    /\ \A F \in Forms :
        /\ st[F] = "panic_next_unwrap" => ~FromPrepared(PairAt(F, Current(F)).q)
        /\ \A k \in DOMAIN batch[F] : \A m \in PairsOf(batch[F][k]) :
              FromPrepared(pairs[F][m].q) =>
                /\ pairs[F][m].pos <= Len(b[pairs[F][m].q].ell_coeffs)
                /\ BatchDone(batch[F][k]) =>
                      /\ pairs[F][m].pos = Len(b[pairs[F][m].q].ell_coeffs)
                      /\ pairs[F][m].pos = EmittedCount
\* both forms have returned from two chunks of pairs prepared by
\* G2Prepared::from, every coefficient taken
ExactConsumptionWitness ==
    /\ \A F \in Forms : st[F] = "done" /\ Len(batch[F]) = 2
    /\ \A m \in DOMAIN pairs["native"] :
          FromPrepared(pairs["native"][m].q) /\ pairs["native"][m].pos = EmittedCount

\* the number of triples G2Prepared::from has pushed before its turn i
EmittedBefore(i) == (i - 1) + Cardinality({m \in 1 .. (i - 1) : EmitBits[m] = 1})
\* the turn of G2Prepared::from for the bit of turn i of the Miller loop: both
\* iterate down to the last bit of BLS_X
SameBit(i) == i + Len(EmitBits) - Len(LoopBits)
\* the positions in ell_coeffs of the doubling triple and of the mixed-addition
\* triple pushed for the bit of turn i of the Miller loop
DoubleIdx(i) == EmittedBefore(SameBit(i)) + 1
AddIdx(i) == EmittedBefore(SameBit(i)) + 2
\* the loop of G2Prepared::from stopped after its turn i, for the point q
PreparedUpTo(q, i) ==
    PrepareTurns([ell_coeffs |-> <<>>, r |-> [x |-> q.x, y |-> q.y, z |-> Fq2ONE]],
                 q, EmitBits, 1, i).ell_coeffs
\* what the turns 1..i of G2Prepared::from push is the first EmittedBefore(i + 1)
\* triples of the sequence, for the first point of a call about to start
EmissionOrder ==
    (st["native"] = "start" /\ Len(b) = 1 /\ ~prepared[1].infinity) =>
        \A i \in DOMAIN EmitBits :
            PreparedUpTo(G2Point(1), i)
              = SubSeq(prepared[1].ell_coeffs, 1, EmittedBefore(i + 1))
\* a step of a form on its chunk k in a bit step of the loop
LockStepOf(F, k) ==
    LET bt == batch[F][k]
        m == bt.lo + bt.j
    IN  /\ \A n \in PairsOf(bt) :
              pairs'[F][n].pos # pairs[F][n].pos =>
                /\ n = m
                /\ pairs'[F][n].pos = pairs[F][n].pos + 1
                /\ \/ bt.ph = "ell1" /\ pairs'[F][n].pos = DoubleIdx(bt.bit)
                   \/ /\ bt.ph = "ell2" /\ EmitBits[SameBit(bt.bit)] = 1
                      /\ pairs'[F][n].pos = AddIdx(bt.bit)
                /\ batch'[F][k].f
                     = EllF(F, bt.f, b[pairs[F][n].q].ell_coeffs[pairs'[F][n].pos], pairs[F][n].p)
        /\ (bt.ph = "square" /\ batch'[F][k] # bt) =>
              /\ batch'[F][k].ph = "ell1" /\ batch'[F][k].bit = bt.bit
              /\ batch'[F][k].f = SquareF(F, bt.f)
              /\ \A n \in PairsOf(bt) : pairs[F][n].pos = DoubleIdx(bt.bit) - 1
        /\ (bt.ph = "ell1" /\ batch'[F][k].ph = "square") => EmitBits[SameBit(bt.bit)] = 0
        /\ (bt.ph = "ell1" /\ batch'[F][k].ph = "ell2") => EmitBits[SameBit(bt.bit)] = 1

\* C12: in every bit step of every chunk the accumulator is squared first, with
\* no triple of that bit taken yet; a triple is then taken from one pair at a
\* time, the next of its sequence, which in the first pass is the doubling
\* triple G2Prepared::from pushed for that bit and in the second pass, made
\* only when the bit is set, the mixed-addition triple pushed for that bit; and
\* that triple is the one folded into the accumulator.
LockStepOrder ==
    /\ []EmissionOrder
    /\ [][\A F \in Forms : \A k \in DOMAIN batch[F] : LockStepOf(F, k)]_vars
\* the second pass of a set bit has taken the mixed-addition triple of the
\* first pair of a chunk of several pairs
LockStepOrderWitness ==
    /\ Len(batch["native"]) >= 1
    /\ batch["native"][1].ph = "ell2" /\ batch["native"][1].j = 1 /\ batch["native"][1].n > 1
    /\ batch["native"][1].bit > 1
    /\ pairs["native"][1].pos = AddIdx(batch["native"][1].bit)
    /\ pairs["native"][2].pos = DoubleIdx(batch["native"][1].bit)

\* C13: xy() gives no coordinates exactly when the infinity flag is set, no
\* collected pair holds a G1 point with the flag set, so that ell and
\* ell_target are only given points with the flag clear, and no call fails at
\* xy().unwrap().
InfinityNeverRead ==
    /\ \A i \in DOMAIN a : G1AffineTarget_xy(a[i]).some = ~a[i].infinity
    /\ \A F \in Forms :
        /\ st[F] # "panic_xy_unwrap"
        /\ \A m \in DOMAIN pairs[F] :
              ~pairs[F][m].p.infinity /\ G1AffineTarget_xy(pairs[F][m].p).some
\* both forms have returned, after line evaluations, from a list that holds a
\* G1 point at infinity next to proper pairs
InfinityNeverReadWitness ==
    /\ \A F \in Forms : st[F] = "done" /\ count[F].ell > 0
    /\ \E i \in DOMAIN a : a[i].infinity /\ ~b[i].infinity
    /\ Len(pairs["circuit"]) = Len(a) - 1

(***************************************************************************)
(* Properties of the product over the chunks.                              *)
(***************************************************************************)
\* the chunks of a form that have completed all their bit steps
DoneChunks(F) == {k \in DOMAIN batch[F] : BatchDone(batch[F][k])}
\* the results of the chunks read as native values
NativeResults(F) == [k \in DOMAIN batch[F] |-> Fq12_of(F, batch[F][k].f)]
\* the conjugation: none before the form returns, one when it has returned
ConjugatedOnce ==
    \A F \in Forms :
        /\ conjugated[F] = IF st[F] = "done" /\ BLS_X_IS_NEGATIVE THEN 1 ELSE 0
        /\ out[F] # <<>> => st[F] \in {"combined", "done"}
        /\ st[F] \in {"combined", "done"} =>
              folded[F] = DOMAIN batch[F] /\ DoneChunks(F) = DOMAIN batch[F]
        /\ st[F] = "combined" => Fq12_of(F, out[F]) = Product(NativeResults(F))
        /\ (st[F] = "done" /\ BLS_X_IS_NEGATIVE) =>
              Fq12_of(F, out[F]) = Fq12Conjugate(Product(NativeResults(F)))
\* the step that conjugates takes the combined product and leaves the chunks alone
ConjugateStep ==
    \A F \in Forms :
        conjugated'[F] # conjugated[F] =>
            /\ st[F] = "combined" /\ st'[F] = "done"
            /\ batch'[F] = batch[F]
            /\ Fq12_of(F, out'[F]) = Fq12Conjugate(Fq12_of(F, out[F]))

RECURSIVE SeqPass(_, _, _, _, _)
SeqPass(f, lo, n, j, c) ==
    IF j = n THEN f
    ELSE Only({SeqPass(g, lo, n, j + 1, c) :
                 g \in {ell(f, b[pairs["native"][lo + j].q].ell_coeffs[c + 1],
                            pairs["native"][lo + j].p)}})
\* one turn of the loop over the bits: s = [f, c]
SeqTurn(s, lo, n, i) ==
    Only({IF LoopBits[i] = 1
          THEN [f |-> SeqPass(g, lo, n, 0, s.c + 1), c |-> s.c + 2]
          ELSE [f |-> g, c |-> s.c + 1] :
          g \in {SeqPass(Fq12Square(s.f), lo, n, 0, s.c)}})
\* the turns from..to of that loop, in order (split in halves only to keep the
\* evaluation shallow)
RECURSIVE SeqTurns(_, _, _, _, _)
SeqTurns(s, lo, n, from, to) ==
    IF from > to THEN s
    ELSE IF from = to THEN SeqTurn(s, lo, n, from)
    ELSE LET mid == (from + to) \div 2
         IN  Only({SeqTurns(m, lo, n, mid + 1, to) : m \in {SeqTurns(s, lo, n, from, mid)}})
\* the value the native form returns when its chunks run one after another
SeqResult ==
    Only({IF BLS_X_IS_NEGATIVE THEN Fq12Conjugate(f) ELSE f :
          f \in {Product([k \in DOMAIN batch["native"] |->
                     SeqTurns([f |-> Fq12ONE, c |-> 0], batch["native"][k].lo,
                              batch["native"][k].n, 1, NBits).f])}})

\* every collected pair is in exactly one chunk, of at most CHUNK pairs
OneChunkEach ==
    \A F \in Forms :
        /\ \A k \in DOMAIN batch[F] : batch[F][k].n \in 1 .. CHUNK
        /\ st[F] \in {"loop", "combined", "done"} =>
              \A m \in DOMAIN pairs[F] :
                  Cardinality({k \in DOMAIN batch[F] : m \in PairsOf(batch[F][k])}) = 1
\* the accumulator of a chunk after a step of it, from that chunk's own
\* accumulator and its own pair's next coefficient
OwnStep(F, bt) ==
    IF bt.ph = "square" THEN SquareF(F, bt.f)
    ELSE Only({EllF(F, bt.f, b[pr.q].ell_coeffs[pr.pos + 1], pr.p) :
                 pr \in {pairs[F][bt.lo + bt.j]}})
\* a step of a chunk changes that chunk and its pairs alone, by what that chunk
\* and its pairs hold
OwnStateOnly ==
    \A F \in Forms :
        /\ \A k \in DOMAIN batch[F] :
              batch'[F][k] # batch[F][k] =>
                /\ \A j \in DOMAIN batch[F] \ {k} : batch'[F][j] = batch[F][j]
                /\ \A m \in DOMAIN pairs[F] \ PairsOf(batch[F][k]) : pairs'[F][m] = pairs[F][m]
                /\ batch'[F][k].f = OwnStep(F, batch[F][k])
        /\ \A m \in DOMAIN pairs[F] :
              pairs'[F][m] # pairs[F][m] =>
                \E k \in DOMAIN batch[F] : m \in PairsOf(batch[F][k]) /\ batch'[F][k] # batch[F][k]

\* C15: every collected pair is in exactly one chunk of at most 4 pairs, a
\* step of a chunk changes that chunk's accumulator and its pairs' coefficient
\* iterators and nothing of another chunk, and however the steps of the chunks
\* interleave the native form returns what it returns when the chunks run one
\* after another.
BatchIndependence ==
    /\ []OneChunkEach
    /\ [][OwnStateOnly]_vars
    /\ [](st["native"] = "done" => out["native"] = SeqResult)
\* the second chunk is ahead of the first, both in the middle of their loops
BatchIndependenceWitness ==
    /\ parallel /\ st["native"] = "loop" /\ Len(batch["native"]) = 2
    /\ batch["native"][1].bit > 1 /\ batch["native"][1].bit < NBits
    /\ batch["native"][2].bit > batch["native"][1].bit /\ batch["native"][2].bit < NBits

(***************************************************************************)
(* Properties of the prepared identity.                                    *)
(***************************************************************************)
\* C16: G2Prepared::from of the identity is the empty coefficient sequence
\* with the infinity flag set, no triple of a doubling or addition step in
\* it; what it returns for any other point has the flag clear and a
\* non-empty sequence; and no collected pair, hence no pop of the Miller loop,
\* is of a prepared point with the flag set, whatever coefficients it holds.
PreparedIdentity ==
    /\ G2Prepared_from(G2Affine_identity) = [ell_coeffs |-> <<>>, infinity |-> TRUE]
    /\ \A i \in DOMAIN prepared :
          IF prepared[i] = G2Prepared_from(G2Affine_identity)
          THEN prepared[i].infinity /\ prepared[i].ell_coeffs = <<>>
          ELSE ~prepared[i].infinity /\ Len(prepared[i].ell_coeffs) > 0
    /\ \A F \in Forms : \A m \in DOMAIN pairs[F] : ~b[pairs[F][m].q].infinity
    /\ \A F \in Forms : \A i \in DOMAIN b :
          b[i].infinity => \A m \in DOMAIN pairs[F] : pairs[F][m].q # i
\* both forms have returned, after line evaluations, from a list that holds a
\* prepared point with the flag set and coefficients in it
PreparedIdentityWitness ==
    /\ \A F \in Forms : st[F] = "done" /\ count[F].ell > 0
    /\ \E i \in DOMAIN b : b[i].infinity /\ b[i].ell_coeffs # <<>> /\ ~a[i].infinity

====
